---------------------------- MODULE Spec2Model ----------------------------
(***************************************************************************)
(* AirTraffic: the collector daemon's singleton lifecycle (daemon.py), the *)
(* attribution of system-wide byte counters to applications (monitor.py),  *)
(* the time-series store (database.py), the `since` command (cli.py) and   *)
(* the blocked-applications list (firewall.py).                            *)
(*                                                                         *)
(* Spec is the lifecycle: a few OS processes, each running one command     *)
(* (the collector's start(), a stop(), a status get_pid(), or an unrelated *)
(* program), interleaved step by step over the shared PID marker files.    *)
(* One sampling tick is a single step there; what a tick computes is the   *)
(* subject of SpecMonitor. SpecStore is one process's calls on the store   *)
(* it has opened, over the database files the opening users share;         *)
(* SpecOpen is the opening itself, on data directories and files that      *)
(* change between the runs; SpecThreads is the store's operations step by   *)
(* step, called by the threads of one process beside a reader in another.  *)
(* SpecFirewall is the FirewallManager's calls on its tracking file and    *)
(* the host firewall.                                                      *)
(***************************************************************************)
EXTENDS Integers, Naturals, Sequences, FiniteSets, Bags, TLC

\* ------------------------------------------------------------- bounds
NumProcs == 2        \* process slots; a slot is reused once its process has ended
MaxPid == 2          \* the OS hands out PIDs 1..MaxPid and reuses freed ones
MaxBytes == 2        \* the OS's cumulative byte counters read 0..MaxBytes
MaxTime == 2         \* the wall clock reads 0..MaxTime ticks
TicksPerSecond == 2  \* resolution of the wall clock: time.time() is a float
MaxConn == 1         \* open connections of one process: 0..MaxConn
NumOsProcs == 2      \* processes psutil.process_iter lists
MaxRows == 2         \* rows held by the database files together
MaxDays == 1         \* cleanup_old_data(days) is called with days in 0..MaxDays
NumThreads == 2      \* threads of one process that call its store object

\* ------------------------------------------------- program constants
PollAttempts == 10   \* stop(): for _ in range(10)
DaemonInterval == 60 \* run_daemon(): AirTrafficDaemon(interval=60)
LiveInterval == 2    \* live_monitor(interval: int = 2)
SecondsPerDay == 86400 \* timedelta(days=days)
PrimeSleep == 1      \* start(): time.sleep(1) after the initial collection

Procs == 1..NumProcs
Pids == 1..MaxPid
None == 0            \* get_pid()'s None, and "no such file" for a marker
Users == {"root", "alice"}
Systems == {"Unix", "Windows"}
\* The marker paths: "sys" is /var/run/airtraffic/daemon.pid, a user's name
\* is that user's ~/.airtraffic/daemon.pid (%APPDATA%\AirTraffic on Windows).
Paths == {"sys"} \cup Users
Commands == {"start", "stop", "status", "other"}

VARIABLES
    system,     \* platform.system(): fixed for a behaviour
    proc,       \* the process in each slot, a record:
                \*   pc        its position in its command
                \*   cmd       the command it runs
                \*   pid       os.getpid()
                \*   euid      os.geteuid(): "root" is 0
                \*   home      whose directory ~ expands to
                \*   running   AirTrafficDaemon.running
                \*   handled   _signal_handler has run in this process
                \*   target    stop(): the pid get_pid() returned
                \*   attempts  stop(): iterations of the wait loop done
                \*   sent      stop(): termination requests issued
                \*   baseline  the collector's monitor.last_stats is set
                \*   slept     the collector's latest time.sleep: its seconds
                \*   stopper   the collector: the slot of the stop() whose
                \*             termination request reached it last
    files,      \* the PID marker files: path -> pid written in it, or None
    net_io,     \* psutil.net_io_counters(): the OS's cumulative byte counters
    clock,      \* the wall clock (time.time(), datetime.now()), in ticks
    os_table,   \* the OS's processes and their connections
    mpc,        \* the monitor's owner: "new", "loop" (between calls), "returned",
                \* "recorded" (the collector's record_stats has committed)
    last_stats, \* NetworkMonitor.last_stats: {} (NoStats) or the previous snapshot
    call,       \* the latest call: its interval, what failed, last_stats before it
    stats,      \* what the latest call returned: app name -> sent, recv, connections
    persisted,  \* the rows the collector's latest tick inserted: a bag of rows
    store,      \* the NetworkDatabase object of the process at hand
    dbs,        \* the database files: path -> whether it exists, and its rows
    result,     \* the store operation that has just returned, and its outcome
    lock,       \* NetworkDatabase.lock: the thread holding it, or None
    thr,        \* the threads of the store's process: each one's operation,
                \* its position in it and its open transaction
    ext,        \* what a get_stats_since of another process has just read
    blocked_apps, \* blocked_apps.json: the names of the applications listed
    rules,      \* the applications whose block is in force in the host firewall
    processes,  \* the applications psutil.process_iter lists with name and exe
    fw          \* the FirewallManager call that has just ended, and its outcome

dvars == <<system, proc, files>>

mvars == <<net_io, clock, os_table, mpc, last_stats, call, stats>>

svars == <<persisted, store, dbs, result>>

tvars == <<lock, thr, ext>>

fvars == <<blocked_apps, rules, processes, fw>>

vars == <<dvars, mvars, svars, tvars, fvars>>

\* ------------------------------------------------------ the OS's view
\* How a command ended; the process is gone and its PID is free.
Terminal == {"ret_already", "ret_daemon_stopped", "ret_not_running", "ret_stopped",
             "ret_error", "ret_status_running", "ret_status_none", "killed", "gone"}

NoProc == [pc |-> "none", cmd |-> "other", pid |-> None, euid |-> "alice",
           home |-> "alice", running |-> FALSE, handled |-> FALSE, target |-> None,
           attempts |-> 0, sent |-> 0, baseline |-> FALSE, slept |-> 0,
           stopper |-> None]

\* The slot after its process ended with `outcome`.
Ended(outcome) == [NoProc EXCEPT !.pc = outcome]

Alive(q) == proc[q].pc \notin (Terminal \cup {"none"})

\* `while self.running:` and its body
LoopStates == {"loop", "tick", "sleep"}

UsedPids == {proc[q].pid : q \in {r \in Procs : Alive(r)}}

\* The live process holding `pid`, as a set of at most one slot.
ProcWithPid(pid) == {q \in Procs : Alive(q) /\ proc[q].pid = pid}

\* kill(2)'s permission rule (and taskkill's): root signals anyone, a user
\* only its own processes.
CanSignal(p, q) == proc[p].euid = "root" \/ proc[p].euid = proc[q].euid

\* os.kill(pid, 0) on Unix: returns for a live process the caller may signal,
\* raises ProcessLookupError (no process) or PermissionError (another user's
\* process) otherwise, both OSError. On Windows `str(pid) in tasklist's
\* output`, which lists every user's processes.
ProbeFails(p, pid) ==
    IF system = "Windows"
    THEN ProcWithPid(pid) = {}
    ELSE \A q \in ProcWithPid(pid) : ~CanSignal(p, q)

\* os.remove(path) succeeds: root removes anything; a user removes files of
\* its own ~/.airtraffic, not of root's /var/run/airtraffic (mode 0755).
CanRemove(p, path) ==
    IF system = "Windows" THEN path = proc[p].home
    ELSE proc[p].euid = "root" \/ path = proc[p].home

\* ------------------------------------------------------- daemon.py
GetSystemPidFile == IF system # "Windows" THEN "sys" ELSE "none"

GetPidFile(p) ==
    IF system = "Windows" THEN proc[p].home
    ELSE IF proc[p].euid = "root" THEN "sys" ELSE proc[p].home

PidFileCandidates(p) ==
    IF system = "Windows" THEN <<GetPidFile(p)>>
    ELSE <<GetSystemPidFile, proc[p].home>>

\* A _remove_pid_file that deletes nothing: the variant C4 has to reject
RemovePidFileKeeps(p, path, f) == f

\* _remove_pid_file: the OSError of a failed os.remove is swallowed
RemovePidFile(p, path, f) ==
    IF f[path] # None /\ CanRemove(p, path)
    THEN [f EXCEPT ![path] = None]
    ELSE f

RECURSIVE RemoveAll(_, _, _)
RemoveAll(p, paths, f) ==
    IF paths = <<>> THEN f
    ELSE RemoveAll(p, Tail(paths), RemovePidFile(p, Head(paths), f))

\* get_pid over the remaining candidates: the pid returned (None: not
\* running) and the marker files as the call leaves them.
RECURSIVE GetPidFrom(_, _, _)
GetPidFrom(p, cands, f) ==
    IF cands = <<>> THEN [pid |-> None, files |-> f]
    ELSE LET path == Head(cands) IN
         IF f[path] = None THEN GetPidFrom(p, Tail(cands), f)
         ELSE IF ~ProbeFails(p, f[path]) THEN [pid |-> f[path], files |-> f]
         ELSE GetPidFrom(p, Tail(cands), RemovePidFile(p, path, f))

GetPid(p) == GetPidFrom(p, PidFileCandidates(p), files)

DInit ==
    /\ system \in Systems
    /\ proc = [p \in Procs |-> NoProc]
    /\ files = [x \in Paths |-> None]

\* A user launches a command (or an unrelated program starts) in a free
\* slot. ~ is the user's own directory, except that a root shell entered
\* with sudo may keep the invoking user's HOME.
Spawn(p) ==
    /\ ~Alive(p)
    /\ \E c \in Commands, u \in Users, h \in Users, n \in Pids \ UsedPids :
        /\ h = u \/ (u = "root" /\ system = "Unix" /\ c # "other")
        /\ proc' = [proc EXCEPT ![p] =
                      [NoProc EXCEPT !.pc = c, !.cmd = c, !.pid = n,
                                     !.euid = u, !.home = h]]
    /\ UNCHANGED <<fvars, system, files, mvars, svars, tvars>>

\* A start() without the already-running return: the variant C2 has to
\* reject
StartCheckAlways(p) ==
    /\ proc[p].pc = "start"
    /\ files' = GetPid(p).files
    /\ proc' = [proc EXCEPT ![p].pc = "write_pid"]
    /\ UNCHANGED <<fvars, system, mvars, svars, tvars>>

\* start(), lines 137-139: is_running()
StartCheck(p) ==
    /\ proc[p].pc = "start"
    /\ LET r == GetPid(p) IN
        /\ files' = r.files
        /\ proc' = [proc EXCEPT ![p] = IF r.pid # None THEN Ended("ret_already")
                                       ELSE [@ EXCEPT !.pc = "write_pid"]]
    /\ UNCHANGED <<fvars, system, mvars, svars, tvars>>

\* _write_pid
WritePid(p) ==
    /\ proc[p].pc = "write_pid"
    /\ files' = [files EXCEPT ![GetPidFile(p)] = proc[p].pid]
    /\ proc' = [proc EXCEPT ![p].pc = "set_running"]
    /\ UNCHANGED <<fvars, system, mvars, svars, tvars>>

\* self.running = True
SetRunning(p) ==
    /\ proc[p].pc = "set_running"
    /\ proc' = [proc EXCEPT ![p].running = TRUE, ![p].pc = "prime"]
    /\ UNCHANGED <<fvars, system, files, mvars, svars, tvars>>

\* The initial collection, self.monitor.get_network_stats(), and
\* time.sleep(1). The call stores the snapshot in last_stats unless something
\* in it raises before line 135: its `except Exception: pass` then returns
\* with last_stats as it was (GetNetworkStats with io_fails).
Prime(p) ==
    /\ proc[p].pc = "prime"
    /\ \E io_fails \in BOOLEAN :
        proc' = [proc EXCEPT ![p].pc = "loop", ![p].baseline = ~io_fails,
                             ![p].slept = PrimeSleep]
    /\ UNCHANGED <<fvars, system, files, mvars, svars, tvars>>

\* `while self.running:`
LoopCheck(p) ==
    /\ proc[p].pc = "loop"
    /\ proc' = [proc EXCEPT ![p].pc = IF proc[p].running THEN "tick" ELSE "cleanup"]
    /\ UNCHANGED <<fvars, system, files, mvars, svars, tvars>>

\* One tick's get_network_stats and record_stats. get_network_stats catches
\* every exception itself; record_stats lets sqlite3's errors (a locked or
\* unwritable database) out.
Tick(p) ==
    /\ proc[p].pc = "tick"
    /\ \E raised \in BOOLEAN, io_fails \in BOOLEAN :
        proc' = [proc EXCEPT ![p].pc = IF raised THEN "except" ELSE "sleep",
                             ![p].baseline = @ \/ ~io_fails]
    /\ UNCHANGED <<fvars, system, files, mvars, svars, tvars>>

\* time.sleep(self.interval) returns: the interval has elapsed. A signal
\* whose handler returns does not end the call, the interpreter goes on
\* sleeping for what is left of the interval (PEP 475).
Sleep(p) ==
    /\ proc[p].pc = "sleep"
    /\ proc' = [proc EXCEPT ![p].pc = "loop", ![p].slept = DaemonInterval]
    /\ UNCHANGED <<fvars, system, files, mvars, svars, tvars>>

\* `except Exception as e:`, which encloses the whole while loop
Except(p) ==
    /\ proc[p].pc = "except"
    /\ proc' = [proc EXCEPT ![p].pc = "cleanup"]
    /\ UNCHANGED <<fvars, system, files, mvars, svars, tvars>>

\* _remove_pid
RemovePid(p, f) == RemovePidFile(p, GetPidFile(p), f)

\* `finally: self._remove_pid()`, and start() returns
Cleanup(p) ==
    /\ proc[p].pc = "cleanup"
    /\ files' = RemovePid(p, files)
    /\ proc' = [proc EXCEPT ![p] = Ended("ret_daemon_stopped")]
    /\ UNCHANGED <<fvars, system, mvars, svars, tvars>>

\* _signal_handler. The interpreter runs it between two bytecodes of the
\* main thread, so a signal is handled where it arrives.
SignalHandler(pr) == [pr EXCEPT !.running = FALSE, !.handled = TRUE]

\* stop(), lines 173-177: get_pid() and the not-running return
StopBegin(p) ==
    /\ proc[p].pc = "stop"
    /\ LET r == GetPid(p) IN
        /\ files' = r.files
        /\ proc' = [proc EXCEPT ![p] =
                      IF r.pid = None THEN Ended("ret_not_running")
                      ELSE [@ EXCEPT !.pc = "stop_kill", !.target = r.pid]]
    /\ UNCHANGED <<fvars, system, mvars, svars, tvars>>

\* What the termination request of process p does to process q. Unix: SIGTERM ends an
\* unrelated program and runs _signal_handler in a process that installed
\* it in __init__; in a stop() or status process the handler only sets a
\* flag nothing reads, and nothing is kept of it. Windows: taskkill /F ends
\* the process at once, no handler runs.
Terminate(pr, p, q) ==
    IF system = "Windows" \/ pr[q].cmd = "other"
    THEN [pr EXCEPT ![q] = Ended("killed")]
    ELSE IF pr[q].cmd = "start"
    THEN [pr EXCEPT ![q] = [SignalHandler(@) EXCEPT !.stopper = p]]
    ELSE pr

\* stop(), lines 183-188. os.kill raises OSError when the process is gone
\* (or not the caller's to signal): the `except (OSError, ValueError)` path.
\* taskkill runs with check=False and never raises.
StopKill(p) ==
    /\ proc[p].pc = "stop_kill"
    /\ LET qs == {q \in ProcWithPid(proc[p].target) : CanSignal(p, q)} IN
        IF qs = {}
        THEN proc' = [proc EXCEPT ![p].pc = IF system = "Windows" THEN "stop_poll"
                                            ELSE "stop_except",
                                  ![p].sent = IF system = "Windows" THEN @ + 1 ELSE @]
        ELSE \E q \in qs :
                proc' = Terminate([proc EXCEPT ![p].pc = "stop_poll",
                                               ![p].sent = @ + 1], p, q)
    /\ UNCHANGED <<fvars, system, files, mvars, svars, tvars>>

\* A wait loop with no bound, `while is_process_running(pid)`: the variant
\* C7 has to reject
StopPollUnbounded(p) ==
    /\ proc[p].pc = "stop_poll"
    /\ IF ~ProbeFails(p, proc[p].target)
       THEN proc' = [proc EXCEPT ![p].attempts = @ + 1]
       ELSE proc' = [proc EXCEPT ![p].pc = "stop_remove"]
    /\ UNCHANGED <<fvars, system, files, mvars, svars, tvars>>

\* A wait loop that gives up after its first probe: the variant C35 has to
\* reject
StopPollOnce(p) ==
    /\ proc[p].pc = "stop_poll"
    /\ proc' = [proc EXCEPT ![p].pc = "stop_remove"]
    /\ UNCHANGED <<fvars, system, files, mvars, svars, tvars>>

\* One iteration of `for _ in range(10)`: the liveness probe, then either
\* break or time.sleep(0.5); the loop also ends when the range is used up.
StopPoll(p) ==
    /\ proc[p].pc = "stop_poll"
    /\ IF proc[p].attempts < PollAttempts /\ ~ProbeFails(p, proc[p].target)
       THEN proc' = [proc EXCEPT ![p].attempts = @ + 1]
       ELSE proc' = [proc EXCEPT ![p].pc = "stop_remove"]
    /\ UNCHANGED <<fvars, system, files, mvars, svars, tvars>>

\* A stop() that returns with the markers left in place: the variant C3
\* has to reject
StopRemoveKeeps(p) ==
    /\ proc[p].pc = "stop_remove"
    /\ proc' = [proc EXCEPT ![p] = Ended("ret_stopped")]
    /\ UNCHANGED <<fvars, system, files, mvars, svars, tvars>>

\* stop(), lines 205-209: remove both possible PID files
StopRemove(p) ==
    /\ proc[p].pc = "stop_remove"
    /\ files' = RemoveAll(p, PidFileCandidates(p), files)
    /\ proc' = [proc EXCEPT ![p] = Ended("ret_stopped")]
    /\ UNCHANGED <<fvars, system, mvars, svars, tvars>>

\* stop(), lines 211-215: the except path removes them too
StopExcept(p) ==
    /\ proc[p].pc = "stop_except"
    /\ files' = RemoveAll(p, PidFileCandidates(p), files)
    /\ proc' = [proc EXCEPT ![p] = Ended("ret_error")]
    /\ UNCHANGED <<fvars, system, mvars, svars, tvars>>

\* A status query: get_pid() / is_running() on its own
Status(p) ==
    /\ proc[p].pc = "status"
    /\ LET r == GetPid(p) IN
        /\ files' = r.files
        /\ proc' = [proc EXCEPT ![p] = Ended(IF r.pid = None THEN "ret_status_none"
                                             ELSE "ret_status_running")]
    /\ UNCHANGED <<fvars, system, mvars, svars, tvars>>

\* ------------------------------------------------- the environment
\* Ctrl-C (SIGINT) at a foreground collector, or a SIGTERM from the
\* service manager
Interrupt(p) ==
    /\ Alive(p)
    /\ proc[p].cmd = "start"
    /\ proc' = [proc EXCEPT ![p] = SignalHandler(@)]
    /\ UNCHANGED <<fvars, system, files, mvars, svars, tvars>>

\* The process dies with no handler and no finally: SIGKILL, the OOM
\* killer, a power cut. An unrelated program may also just exit.
Crash(p) ==
    /\ Alive(p)
    /\ proc[p].cmd \in {"start", "other"}
    /\ proc' = [proc EXCEPT ![p] = Ended(IF proc[p].cmd = "other" THEN "gone"
                                         ELSE "killed")]
    /\ UNCHANGED <<fvars, system, files, mvars, svars, tvars>>

\* ------------------------------------------------------- monitor.py
\* A float, kept exact as a fraction with a positive denominator: the
\* rounding of IEEE arithmetic is left out, what is divided by what is not.
Frac(n, d) == [num |-> n, den |-> d]

Zero == Frac(0, 1)

FracEq(a, b) == a.num * b.den = b.num * a.den

FracLe(a, b) == a.num * b.den <= b.num * a.den

FracAdd(a, b) == Frac(a.num * b.den + b.num * a.den, a.den * b.den)

\* Python's a / b for b # 0, the sign kept in the numerator
FracDiv(a, b) ==
    IF b.num > 0 THEN Frac(a.num * b.den, a.den * b.num)
    ELSE Frac(-(a.num * b.den), a.den * (-b.num))

FracMul(a, b) == Frac(a.num * b.num, a.den * b.den)

OsProcs == 1..NumOsProcs
\* The names _get_app_name resolves the listed processes to
AppNames == {"A", "B"}
NoStats == [set |-> FALSE, bytes_sent |-> 0, bytes_recv |-> 0, time |-> 0]

\* Per listed process: the name it resolves to and the number of inet
\* connections psutil.net_connections reports with its pid.
\* What psutil finds when it inspects a listed process: "ok", or the process
\* has exited since it was listed (NoSuchProcess), is a zombie
\* (ZombieProcess), or is not the caller's to inspect (AccessDenied).
ProcStates == {"ok", "gone", "zombie", "denied"}

\* `name` is what proc.name() or the bundle of proc.exe() gives when psutil
\* gives it; it is kept at "A" for a process psutil gives nothing of.
ProcTables ==
    {t \in [OsProcs -> [name : AppNames, conns : 0..MaxConn, state : ProcStates]] :
        \A i \in OsProcs : t[i].state # "ok" => t[i].name = "A"}

\* A _get_app_name with no except clause: the variant C29 has to reject
GetAppNameRaises(e) == IF e.state = "ok" THEN e.name ELSE "raises"

\* _get_app_name, lines 18-44: the name, or "Unknown" from the except
\* clause when psutil raises NoSuchProcess, AccessDenied or ZombieProcess.
\* "raises" stands for an exception that leaves the function. Nothing of the
\* monitor is assigned.
GetAppName(e) == IF e.state = "ok" THEN e.name ELSE "Unknown"

\* The keys app_stats can get from the process table
Resolved == AppNames \cup {"Unknown"}

RECURSIVE SumOver(_, _)
SumOver(f, S) ==
    IF S = {} THEN 0
    ELSE LET x == CHOOSE y \in S : TRUE IN f[x] + SumOver(f, S \ {x})

\* lines 81-100: app_stats[app_name]["connections"]; an application has an
\* entry only when one of its processes has a connection
ConnectionsOf(table, name) ==
    SumOver([i \in OsProcs |-> IF GetAppName(table[i]) = name THEN table[i].conns ELSE 0],
            OsProcs)

AppsWithConnections(table) == {a \in Resolved : ConnectionsOf(table, a) > 0}

\* An attribution that puts the per-second rate in the "System" bucket
\* too: the variant C10 has to reject
AttributeRateEverywhere(conn, prev, cur) ==
    LET time_delta == Frac(cur.time - prev.time, TicksPerSecond)
        sent_delta == cur.bytes_sent - prev.bytes_sent
        recv_delta == cur.bytes_recv - prev.bytes_recv
        sent_rate == FracDiv(Frac(sent_delta, 1), time_delta)
        recv_rate == FracDiv(Frac(recv_delta, 1), time_delta)
        total_connections == SumOver(conn, DOMAIN conn)
    IN  IF total_connections > 0
        THEN [a \in DOMAIN conn |->
                [sent |-> FracMul(sent_rate, Frac(conn[a], total_connections)),
                 recv |-> FracMul(recv_rate, Frac(conn[a], total_connections)),
                 connections |-> conn[a]]]
        ELSE [a \in {"System"} |->
                [sent |-> sent_rate, recv |-> recv_rate, connections |-> 0]]

\* lines 115-133 for time_delta > 0: the rates, the deltas, and the split by
\* connection share or the "System" bucket. `conn` maps the applications
\* with connections to their counts.
Attribute(conn, prev, cur) ==
    LET time_delta == Frac(cur.time - prev.time, TicksPerSecond)
        sent_delta == cur.bytes_sent - prev.bytes_sent
        recv_delta == cur.bytes_recv - prev.bytes_recv
        sent_rate == FracDiv(Frac(sent_delta, 1), time_delta)
        recv_rate == FracDiv(Frac(recv_delta, 1), time_delta)
        total_connections == SumOver(conn, DOMAIN conn)
    IN  IF total_connections > 0
        THEN [a \in DOMAIN conn |->
                [sent |-> FracMul(sent_rate, Frac(conn[a], total_connections)),
                 recv |-> FracMul(recv_rate, Frac(conn[a], total_connections)),
                 connections |-> conn[a]]]
        ELSE [a \in {"System"} |->
                [sent |-> Frac(sent_delta, 1), recv |-> Frac(recv_delta, 1),
                 connections |-> 0]]

\* A get_network_stats that takes an absent last_stats for a snapshot of
\* zeros: the variant C15 has to reject
GetNetworkStatsNoBaseline(last, interval, denied, io_fails) ==
    LET table == IF denied THEN [i \in OsProcs |-> [os_table[i] EXCEPT !.conns = 0]]
                 ELSE os_table
        conn == [a \in AppsWithConnections(table) |-> ConnectionsOf(table, a)]
        counted == [a \in DOMAIN conn |->
                      [sent |-> Zero, recv |-> Zero, connections |-> conn[a]]]
        cur == [set |-> TRUE, bytes_sent |-> net_io.bytes_sent,
                bytes_recv |-> net_io.bytes_recv, time |-> clock]
    IN  IF io_fails THEN [stats |-> counted, last_stats |-> last]
        ELSE [stats |-> IF interval > 0 /\ cur.time - last.time > 0
                        THEN Attribute(conn, last, cur)
                        ELSE counted,
              last_stats |-> cur]

\* A get_network_stats that gives the sample up when net_connections is
\* denied: the variant C28 has to reject
GetNetworkStatsDeniedAborts(last, interval, denied, io_fails) ==
    LET table == IF denied THEN [i \in OsProcs |-> [os_table[i] EXCEPT !.conns = 0]]
                 ELSE os_table
        conn == [a \in AppsWithConnections(table) |-> ConnectionsOf(table, a)]
        counted == [a \in DOMAIN conn |->
                      [sent |-> Zero, recv |-> Zero, connections |-> conn[a]]]
        cur == [set |-> TRUE, bytes_sent |-> net_io.bytes_sent,
                bytes_recv |-> net_io.bytes_recv, time |-> clock]
    IN  IF io_fails \/ denied THEN [stats |-> counted, last_stats |-> last]
        ELSE [stats |-> IF last.set /\ interval > 0 /\ cur.time - last.time > 0
                        THEN Attribute(conn, last, cur)
                        ELSE counted,
              last_stats |-> cur]

\* get_network_stats(interval) on what the OS reports now: the dictionary
\* returned and last_stats as the call leaves it. When net_connections is
\* denied the connection list is empty; when reading the counters raises,
\* the outer `except Exception: pass` returns what was tallied and leaves
\* last_stats alone.
GetNetworkStats(last, interval, denied, io_fails) ==
    LET table == IF denied THEN [i \in OsProcs |-> [os_table[i] EXCEPT !.conns = 0]]
                 ELSE os_table
        conn == [a \in AppsWithConnections(table) |-> ConnectionsOf(table, a)]
        counted == [a \in DOMAIN conn |->
                      [sent |-> Zero, recv |-> Zero, connections |-> conn[a]]]
        cur == [set |-> TRUE, bytes_sent |-> net_io.bytes_sent,
                bytes_recv |-> net_io.bytes_recv, time |-> clock]
    IN  IF io_fails THEN [stats |-> counted, last_stats |-> last]
        ELSE [stats |-> IF last.set /\ interval > 0 /\ cur.time - last.time > 0
                        THEN Attribute(conn, last, cur)
                        ELSE counted,
              last_stats |-> cur]

NoCall == [interval |-> 0, denied |-> FALSE, io_fails |-> FALSE, prev |-> NoStats]

EmptyStats == [a \in {} |-> 0]

MInit ==
    /\ net_io = [bytes_sent |-> 0, bytes_recv |-> 0]
    /\ clock = 0
    /\ os_table = [i \in OsProcs |-> [name |-> "A", conns |-> 0, state |-> "ok"]]
    /\ mpc = "new"
    /\ last_stats = NoStats
    /\ call = NoCall
    /\ stats = EmptyStats
    /\ persisted = EmptyBag

\* One call by the monitor's owner
Call(interval) ==
    \E denied \in BOOLEAN, io_fails \in BOOLEAN :
        LET r == GetNetworkStats(last_stats, interval, denied, io_fails) IN
        /\ stats' = r.stats
        /\ last_stats' = r.last_stats
        /\ call' = [interval |-> interval, denied |-> denied,
                    io_fails |-> io_fails, prev |-> last_stats]
        /\ mpc' = "returned"
        /\ UNCHANGED <<fvars, net_io, clock, os_table, dvars, svars, tvars>>

\* daemon.py line 146 and cli.py line 357: the initial collection,
\* get_network_stats() with the default interval 0, on a new monitor
CallPrime ==
    /\ mpc = "new"
    /\ Call(0)

\* daemon.py line 155 (interval 60) and cli.py line 375 (interval 2): the
\* loop's get_network_stats(interval=interval)
CallSample ==
    /\ mpc = "loop"
    /\ \E interval \in {DaemonInterval, LiveInterval} : Call(interval)

\* int(x) of a float: truncation toward zero
IntOf(x) ==
    IF x.num >= 0 THEN x.num \div x.den ELSE -((-x.num) \div x.den)

\* sqlite3's adapter stores a datetime as the text of isoformat(" "), which
\* leaves the fraction of a second out when it is zero: the text of the
\* instant t ticks after the epoch, as the sequence of its fields.
DateText(t) ==
    IF t % TicksPerSecond = 0 THEN <<t \div TicksPerSecond>>
    ELSE <<t \div TicksPerSecond, t % TicksPerSecond>>

\* SQLite compares two TEXT values field by field, a proper prefix first.
TextLt(a, b) ==
    \E i \in 1..Len(b) :
        /\ \A j \in 1..(i - 1) : j <= Len(a) /\ a[j] = b[j]
        /\ i > Len(a) \/ a[i] < b[i]

\* A record_stats that writes the two byte columns the wrong way round: the
\* variant C16 has to reject
RowsOfSwapped(st, t) ==
    SetToBag({[timestamp |-> DateText(t), app_name |-> a,
               bytes_sent |-> IntOf(st[a].recv),
               bytes_recv |-> IntOf(st[a].sent),
               connections |-> st[a].connections] : a \in DOMAIN st})

\* The rows one record_stats(stats) call inserts at datetime.now() = t: one
\* per entry of the dictionary, the bytes through int(). The id column is
\* read by no query and is left out; equal rows are kept apart by the bag.
RowsOf(st, t) ==
    SetToBag({[timestamp |-> DateText(t), app_name |-> a,
               bytes_sent |-> IntOf(st[a].sent),
               bytes_recv |-> IntOf(st[a].recv),
               connections |-> st[a].connections] : a \in DOMAIN st})

\* The collector's tick, daemon.py lines 158-159: `if stats:
\* self.database.record_stats(stats)` on its writable store. No statement of
\* database.py updates a row once inserted, so what the tick persisted is
\* this batch.
TickRecord ==
    /\ mpc = "returned"
    /\ call.interval = DaemonInterval
    /\ DOMAIN stats # {}
    /\ persisted' = RowsOf(stats, clock)
    /\ mpc' = "recorded"
    /\ UNCHANGED <<fvars, net_io, clock, os_table, last_stats, call, stats, dvars,
                   store, dbs, result, tvars>>

\* The owner is done with the returned dictionary (the collector has
\* recorded it, the live view has drawn it) and sleeps: the next call is a
\* loop call.
Resume ==
    /\ \/ mpc = "recorded"
       \/ mpc = "returned" /\ (call.interval # DaemonInterval \/ DOMAIN stats = {})
    /\ mpc' = "loop"
    /\ call' = NoCall
    /\ stats' = EmptyStats
    /\ persisted' = EmptyBag
    /\ UNCHANGED <<fvars, net_io, clock, os_table, last_stats, dvars, store, dbs, result, tvars>>

\* The owner is between two calls
Sleeping == mpc \in {"new", "loop"}

\* While the owner sleeps, the OS's cumulative counters move: traffic adds
\* to them, a reset or a wrap takes them back.
CountersMove ==
    /\ Sleeping
    /\ \E s \in 0..MaxBytes, r \in 0..MaxBytes :
        net_io' = [bytes_sent |-> s, bytes_recv |-> r]
    /\ UNCHANGED <<fvars, clock, os_table, mpc, last_stats, call, stats, dvars, svars, tvars>>

\* The wall clock advances, and an adjustment may set it back.
ClockMoves ==
    /\ Sleeping
    /\ \E t \in 0..MaxTime : clock' = t
    /\ UNCHANGED <<fvars, net_io, os_table, mpc, last_stats, call, stats, dvars, svars, tvars>>

\* Processes come and go, open and close connections.
TableChanges ==
    /\ Sleeping
    /\ \E t \in ProcTables : os_table' = t
    /\ UNCHANGED <<fvars, net_io, clock, mpc, last_stats, call, stats, dvars, svars, tvars>>

\* ------------------------------------------------------ database.py
\* A data directory is "absent", "blocked" (absent, and something that is
\* no directory stands at its name, so it cannot be made), "normal" (there,
\* with the permission bits its owner gave it: the owner writes, everyone
\* reads) or "private" (there, and only root gets in). The database file in
\* it is "absent", "ok" or "sealed" (there, and only root can open it).
DirStates == {"absent", "blocked", "normal", "private"}

FileStates == {"absent", "ok", "sealed"}

NoDb == [dir |-> "absent", file |-> "absent", rows |-> EmptyBag]

\* os.path.isdir
IsDir(path) == dbs[path].dir \in {"normal", "private"}

\* os.access(dir, os.R_OK)
Readable(u, path) ==
    IsDir(path) /\ (dbs[path].dir = "normal" \/ (system # "Windows" /\ u = "root"))

\* os.access(dir, os.W_OK) of the directory as `d` has it: root passes any
\* permission bits, a user writes its own directory.
Writable(u, path, d) ==
    \/ d = "normal" /\ (path = u \/ (system # "Windows" /\ u = "root"))
    \/ d = "private" /\ system # "Windows" /\ u = "root"

\* sqlite3.connect opens the file as `f` has it, or can create it
CanConnect(u, f) == f # "sealed" \/ (system # "Windows" /\ u = "root")

\* _get_db_dir for effective user u: the per-user directory on Windows,
\* /var/lib/airtraffic ("sys") for root, and for any other user too when it
\* exists and is readable, else ~/.airtraffic.
\* A _get_db_dir that never looks at the system-wide directory for an
\* unprivileged user: the variant C25 has to reject
DbDirHome(u) ==
    IF system = "Windows" THEN u
    ELSE IF u = "root" THEN "sys"
    ELSE u

DbDir(u) ==
    IF system = "Windows" THEN u
    ELSE IF u = "root" THEN "sys"
    ELSE IF IsDir("sys") /\ Readable(u, "sys") THEN "sys" ELSE u

\* __init__ lines 52-56: self._read_only
ReadOnly(u, dir) == system # "Windows" /\ dir = "sys" /\ u # "root"

NoStore == [opened |-> FALSE, euid |-> "alice", path |-> "alice", read_only |-> FALSE]

\* A `since` time specification as the command line gives it: a word, or
\* (word "stamp") a date and a time written with the separator `sep` in the
\* date, "dd<sep>mm<sep>2026 00:00:ss".
NoArg == [word |-> "", sep |-> ":", day |-> 1, month |-> 1, second |-> 0]

SinceArgs ==
    {[NoArg EXCEPT !.word = w] : w \in {"today", " Today ", "MONTH", "week"}}
    \cup [word : {"stamp"}, sep : {":", "-"}, day : {1, 32}, month : {1, 13},
          second : {0, 1}]

\* `names` is the path an error's message gives, "none" when it gives none.
NoResult == [op |-> "none", stats |-> EmptyStats, start |-> 0, days |-> 0,
             value |-> EmptyStats, raised |-> FALSE, names |-> "none",
             why |-> "none", by |-> "none", arg |-> NoArg]

\* The rows of the file the store is opened on
Rows == dbs[store.path].rows

TotalRows == SumOver([x \in Paths |-> BagCardinality(dbs[x].rows)], Paths)

\* The dictionary entries record_stats is given in this model: all zero,
\* integers, floats with a fraction, negative.
EntryInputs ==
    {[sent |-> Frac(0, 1), recv |-> Frac(0, 1), connections |-> 0],
     [sent |-> Frac(1, 1), recv |-> Frac(2, 1), connections |-> 1],
     [sent |-> Frac(3, 2), recv |-> Frac(1, 2), connections |-> 1],
     [sent |-> Frac(-1, 1), recv |-> Frac(-1, 1), connections |-> 0]}

StatsInputs == UNION {[S -> EntryInputs] : S \in SUBSET AppNames}

MaxOf(S) == CHOOSE x \in S : \A y \in S : y <= x

\* Python's `x or 0`
OrZero(x) == IF x = 0 THEN 0 ELSE x

\* A get_stats_since without its WHERE clause: the variant C17 has to reject
GetStatsSinceAll(rows, start) ==
    LET sel == BagToSet(rows)
        of(a) == {r \in sel : r.app_name = a}
    IN  [a \in {r.app_name : r \in sel} |->
            [sent |-> OrZero(SumOver([r \in of(a) |-> r.bytes_sent * CopiesIn(r, rows)],
                                     of(a))),
             recv |-> OrZero(SumOver([r \in of(a) |-> r.bytes_recv * CopiesIn(r, rows)],
                                     of(a))),
             connections |-> OrZero(MaxOf({r.connections : r \in of(a)}))]]

\* get_stats_since's SELECT on the table `rows`: WHERE timestamp >= ?,
\* GROUP BY app_name, SUM, SUM, MAX, and the dictionary built from it.
GetStatsSince(rows, start) ==
    LET sel == {r \in BagToSet(rows) : ~TextLt(r.timestamp, DateText(start))}
        of(a) == {r \in sel : r.app_name = a}
    IN  [a \in {r.app_name : r \in sel} |->
            [sent |-> OrZero(SumOver([r \in of(a) |-> r.bytes_sent * CopiesIn(r, rows)],
                                     of(a))),
             recv |-> OrZero(SumOver([r \in of(a) |-> r.bytes_recv * CopiesIn(r, rows)],
                                     of(a))),
             connections |-> OrZero(MaxOf({r.connections : r \in of(a)}))]]

\* A cleanup that also deletes the row stamped at the cutoff: the variant
\* C19 has to reject
DeleteThrough(rows, cutoff) ==
    LET kept == {r \in BagToSet(rows) : TextLt(DateText(cutoff), r.timestamp)}
    IN  [r \in kept |-> CopiesIn(r, rows)]

\* cleanup_old_data's DELETE ... WHERE timestamp < ? on the table `rows`
DeleteBefore(rows, cutoff) ==
    LET kept == {r \in BagToSet(rows) : ~TextLt(r.timestamp, DateText(cutoff))}
    IN  [r \in kept |-> CopiesIn(r, rows)]

SInit ==
    /\ store = NoStore
    /\ dbs = [x \in Paths |-> NoDb]
    /\ result = NoResult

\* A makedirs that leaves the directory with the bits of a umask of 077 and
\* no chmod after it: the variant C24 has to reject
MakedirsPrivate(u, dir, d) ==
    IF d = "blocked" THEN "failed"
    ELSE IF d = "absent" THEN "private"
    ELSE d

\* __init__ lines 40-46 on the directory in state d: os.makedirs with
\* exist_ok, and root's chmod 0o755 of the system-wide directory. "failed" is
\* the OSError.
Makedirs(u, dir, d) ==
    IF d = "blocked" THEN "failed"
    ELSE IF d = "absent" THEN "normal"
    ELSE IF dir = "sys" /\ system # "Windows" /\ u = "root" THEN "normal"
    ELSE d

\* An exception of the open: why, and the path its message names
Failure(why, path) == [ok |-> FALSE, why |-> why, names |-> path]

\* An _init_database that does not look for the file in read-only mode: the
\* variant C26 has to reject
InitDatabaseUnchecked(u, dir, ro, d, exec_fails) ==
    LET f == dbs[dir].file IN
    IF d \notin {"normal", "private"} THEN Failure("no directory", dir)
    ELSE IF ~ro /\ ~Writable(u, dir, d) THEN Failure("not writable", dir)
    ELSE IF ~ro /\ ~CanConnect(u, f) THEN Failure("cannot open", dir)
    ELSE IF ~ro /\ exec_fails THEN Failure("sqlite", "none")
    ELSE [ok |-> TRUE, why |-> "none", names |-> "none"]

\* _init_database, lines 60-122, for user u on directory dir in state d:
\* the checks of the directory, then of the file in read-only mode, the
\* connection, the schema. `exec_fails`: a statement of the schema raises
\* sqlite3's own error, which names no path. The directory is found missing
\* here only when it is removed after __init__ resolved or made it.
InitDatabase(u, dir, ro, d, exec_fails) ==
    LET f == dbs[dir].file IN
    IF d \notin {"normal", "private"} THEN Failure("no directory", dir)
    ELSE IF ~ro /\ ~Writable(u, dir, d) THEN Failure("not writable", dir)
    ELSE IF ro /\ f = "absent" THEN Failure("no database", dir)
    ELSE IF ~CanConnect(u, f) THEN Failure("cannot open", dir)
    ELSE IF ~ro /\ exec_fails THEN Failure("sqlite", "none")
    ELSE [ok |-> TRUE, why |-> "none", names |-> "none"]

\* NetworkDatabase.__init__ for user u, lines 34-58: the directory is
\* resolved, a writable store makes it, and _init_database opens the file.
\* The object constructed and the files as the call leaves them, or why it
\* raised.
NewDatabase(u, exec_fails) ==
    LET dir == DbDir(u)
        ro == ReadOnly(u, dir)
        d == IF ro THEN dbs[dir].dir ELSE Makedirs(u, dir, dbs[dir].dir)
        made == IF d = "failed" THEN dbs ELSE [dbs EXCEPT ![dir].dir = d]
        r == IF d = "failed" THEN Failure("cannot create", dir)
             ELSE InitDatabase(u, dir, ro, d, exec_fails)
    IN  IF r.ok
        THEN [ok |-> TRUE, why |-> "none", names |-> "none",
              store |-> [opened |-> TRUE, euid |-> u, path |-> dir, read_only |-> ro],
              dbs |-> IF ro THEN dbs ELSE [made EXCEPT ![dir].file = "ok"]]
        ELSE [ok |-> FALSE, why |-> r.why, names |-> r.names,
              store |-> NoStore, dbs |-> made]

\* NetworkDatabase() by a process of user u. Any exception leaves the caller
\* without a store object.
StoreOpen(u) ==
    /\ ~store.opened
    /\ result.op = "none"
    /\ \E exec_fails \in BOOLEAN :
        LET n == NewDatabase(u, exec_fails) IN
        /\ store' = n.store
        /\ dbs' = n.dbs
        /\ result' = IF n.ok THEN result
                     ELSE [NoResult EXCEPT !.op = "open", !.raised = TRUE,
                                           !.names = n.names, !.why = n.why,
                                           !.by = u]
    /\ UNCHANGED <<fvars, dvars, mvars, persisted, tvars>>

\* The process holding the store ends.
StoreClose ==
    /\ store.opened
    /\ result.op = "none"
    /\ store' = NoStore
    /\ UNCHANGED <<fvars, dvars, mvars, persisted, dbs, result, tvars>>

\* A record_stats that keeps one row per application, INSERT OR REPLACE on
\* app_name: the variant C32 has to reject
RecordStatsReplaces(m) ==
    /\ store.opened
    /\ result.op = "none"
    /\ TotalRows + Cardinality(DOMAIN m) <= MaxRows
    /\ \E locked \in BOOLEAN :
        LET returns == store.read_only \/ DOMAIN m = {}
            others == {r \in BagToSet(Rows) : r.app_name \notin DOMAIN m}
        IN
        /\ dbs' = IF returns \/ locked THEN dbs
                  ELSE [dbs EXCEPT ![store.path].rows =
                           [r \in others |-> CopiesIn(r, @)] (+) RowsOf(m, clock)]
        /\ result' = [NoResult EXCEPT !.op = "record", !.stats = m,
                                      !.raised = ~returns /\ locked]
    /\ UNCHANGED <<fvars, dvars, mvars, persisted, store, tvars>>

\* record_stats(m). sqlite3 raises OperationalError when another
\* connection holds the file locked past the busy timeout; nothing is
\* committed then.
RecordStats(m) ==
    /\ store.opened
    /\ result.op = "none"
    /\ TotalRows + Cardinality(DOMAIN m) <= MaxRows
    /\ \E locked \in BOOLEAN :
        LET returns == store.read_only \/ DOMAIN m = {} IN
        /\ dbs' = IF returns \/ locked THEN dbs
                  ELSE [dbs EXCEPT ![store.path].rows = @ (+) RowsOf(m, clock)]
        /\ result' = [NoResult EXCEPT !.op = "record", !.stats = m,
                                      !.raised = ~returns /\ locked]
    /\ UNCHANGED <<fvars, dvars, mvars, persisted, store, tvars>>

\* get_stats_since(start)
QuerySince(start) ==
    /\ store.opened
    /\ result.op = "none"
    /\ result' = [NoResult EXCEPT !.op = "query", !.start = start,
                                  !.value = GetStatsSince(Rows, start)]
    /\ UNCHANGED <<fvars, dvars, mvars, persisted, store, dbs, tvars>>

\* cleanup_old_data(days): cutoff_date = datetime.now() - timedelta(days)
CleanupOldData(days) ==
    /\ store.opened
    /\ result.op = "none"
    /\ LET cutoff == clock - days * SecondsPerDay * TicksPerSecond IN
        dbs' = IF store.read_only THEN dbs
               ELSE [dbs EXCEPT ![store.path].rows = DeleteBefore(@, cutoff)]
    /\ result' = [NoResult EXCEPT !.op = "cleanup", !.days = days]
    /\ UNCHANGED <<fvars, dvars, mvars, persisted, store, tvars>>

\* cli.py line 136: since_arg.lower().strip(), on the words of SinceArgs
LowerStrip(w) ==
    CASE w = " Today " -> "today"
      [] w = "MONTH" -> "month"
      [] OTHER -> w

\* datetime.now().replace(hour=0, minute=0, second=0, microsecond=0)
Midnight(now) == now - (now % (SecondsPerDay * TicksPerSecond))

\* datetime.strptime(since_arg, "%d:%m:%Y %H:%M:%S"): the fields are split at
\* colons and each has to be in its range, else ValueError. The clock's
\* zero is 01:01:2026 00:00:00 and the stamps of SinceArgs are of January.
Strptime(arg) ==
    IF /\ arg.word = "stamp"
       /\ arg.sep = ":"
       /\ arg.day \in 1..31
       /\ arg.month \in 1..12
       /\ arg.second \in 0..59
    THEN [ok |-> TRUE,
          start |-> ((arg.day - 1) * SecondsPerDay + arg.second) * TicksPerSecond]
    ELSE [ok |-> FALSE, start |-> 0]

\* parse_since_datetime at the instant `now`, which is in the first month
\* after the clock's zero: the start time, or ValueError (ok is FALSE).
ParseSinceDatetime(arg, now) ==
    LET w == LowerStrip(arg.word) IN
    IF w = "today" THEN [ok |-> TRUE, start |-> Midnight(now)]
    ELSE IF w = "month" THEN [ok |-> TRUE, start |-> 0]
    ELSE Strptime(arg)

\* A show_since that constructs the store before it parses its argument:
\* the variant C33 has to reject
ShowSinceOpensFirst(u, arg) ==
    /\ ~store.opened
    /\ result.op = "none"
    /\ \E exec_fails \in BOOLEAN :
        LET p == ParseSinceDatetime(arg, clock)
            n == NewDatabase(u, exec_fails)
            usage == n.ok /\ ~p.ok
        IN
        /\ dbs' = n.dbs
        /\ result' = [NoResult EXCEPT
                         !.op = "since", !.arg = arg, !.by = u,
                         !.start = p.start,
                         !.raised = ~n.ok \/ ~p.ok,
                         !.why = IF usage THEN "usage" ELSE n.why,
                         !.names = n.names,
                         !.value = IF n.ok /\ p.ok
                                   THEN GetStatsSince(n.dbs[n.store.path].rows, p.start)
                                   ELSE EmptyStats]
    /\ UNCHANGED <<fvars, dvars, mvars, persisted, store, tvars>>

\* `airtraffic since <timespec>` by user u, cli.py lines 160-193, as one run
\* of the program: the argument is parsed; a ValueError is printed and the
\* process exits with status 1 (why "usage"); else the store is constructed
\* and queried, and the process ends with what it displayed, or with the
\* exception of the open. The store object ends with the process.
ShowSince(u, arg) ==
    /\ ~store.opened
    /\ result.op = "none"
    /\ LET p == ParseSinceDatetime(arg, clock) IN
        IF ~p.ok
        THEN /\ dbs' = dbs
             /\ result' = [NoResult EXCEPT !.op = "since", !.arg = arg, !.by = u,
                                           !.raised = TRUE, !.why = "usage"]
        ELSE \E exec_fails \in BOOLEAN :
                LET n == NewDatabase(u, exec_fails) IN
                /\ dbs' = n.dbs
                /\ result' = [NoResult EXCEPT
                                 !.op = "since", !.arg = arg, !.by = u,
                                 !.start = p.start, !.raised = ~n.ok,
                                 !.why = n.why, !.names = n.names,
                                 !.value = IF n.ok
                                           THEN GetStatsSince(n.dbs[n.store.path].rows,
                                                              p.start)
                                           ELSE EmptyStats]
    /\ UNCHANGED <<fvars, dvars, mvars, persisted, store, tvars>>

\* The caller has taken the outcome of the operation.
StoreReturn ==
    /\ result.op # "none"
    /\ result' = NoResult
    /\ UNCHANGED <<fvars, dvars, mvars, persisted, store, dbs, tvars>>

\* ------------------------------------- database.py, thread by thread
Threads == 1..NumThreads

NoThread == [pc |-> "idle", op |-> "none", stats |-> EmptyStats, start |-> 0,
             days |-> 0, now |-> 0, todo |-> {}, txn |-> EmptyBag,
             value |-> EmptyStats]

NoExt == [active |-> FALSE, start |-> 0, value |-> EmptyStats]

TInit ==
    /\ lock = None
    /\ thr = [t \in Threads |-> NoThread]
    /\ ext = NoExt

RECURSIVE BagSum(_, _)
BagSum(f, S) ==
    IF S = {} THEN EmptyBag
    ELSE LET x == CHOOSE y \in S : TRUE IN f[x] (+) BagSum(f, S \ {x})

\* The rows inserted and not yet committed by the transactions open on
\* connections other than thread t's (t = None: all of them)
OpenTxns(t) == BagSum([u \in Threads \ {t} |-> thr[u].txn], Threads \ {t})

\* A database whose connections read each other's uncommitted rows: the
\* variant C22 has to reject
VisibleDirty(rows, open) == rows (+) open

\* What a connection reads of the table while other connections hold open
\* transactions: SQLite isolates them, it reads the committed rows. The
\* sqlite3 module opens a transaction before the first INSERT (lines
\* 146-156) and nothing is committed before conn.commit() (line 158).
Visible(rows, open) == rows

\* Rows the threads have yet to insert or commit
Pending ==
    SumOver([t \in Threads |-> IF thr[t].pc \in {"acquire", "execute"}
                               THEN Cardinality(DOMAIN thr[t].stats) ELSE 0],
            Threads)

\* The dictionaries the threads record in this model: empty, one
\* application, two applications
BatchInputs ==
    UNION {[S -> {[sent |-> Frac(1, 1), recv |-> Frac(2, 1), connections |-> 1]}] :
             S \in SUBSET AppNames}

\* A thread calls record_stats(m): lines 136-139, the silent return and
\* timestamp = datetime.now(), both before the lock is asked for.
ThreadRecord(t, m) ==
    /\ store.opened
    /\ thr[t].pc = "idle"
    /\ TotalRows + Pending + Cardinality(DOMAIN m) <= MaxRows
    /\ thr' = [thr EXCEPT ![t] =
                 IF store.read_only \/ DOMAIN m = {}
                 THEN NoThread
                 ELSE [NoThread EXCEPT !.pc = "acquire", !.op = "record",
                                       !.stats = m, !.now = clock,
                                       !.todo = DOMAIN m]]
    /\ UNCHANGED <<fvars, dvars, mvars, svars, lock, ext>>

\* A thread calls get_stats_since(start)
ThreadQuery(t, start) ==
    /\ store.opened
    /\ thr[t].pc = "idle"
    /\ thr' = [thr EXCEPT ![t] = [NoThread EXCEPT !.pc = "acquire", !.op = "query",
                                                  !.start = start]]
    /\ UNCHANGED <<fvars, dvars, mvars, svars, lock, ext>>

\* A thread calls cleanup_old_data(days): lines 222-224, the silent return
\* and the cutoff, both before the lock is asked for.
ThreadCleanup(t, days) ==
    /\ store.opened
    /\ thr[t].pc = "idle"
    /\ thr' = [thr EXCEPT ![t] =
                 IF store.read_only
                 THEN NoThread
                 ELSE [NoThread EXCEPT !.pc = "acquire", !.op = "cleanup",
                                       !.days = days,
                                       !.now = clock - days * SecondsPerDay
                                                            * TicksPerSecond]]
    /\ UNCHANGED <<fvars, dvars, mvars, svars, lock, ext>>

\* An operation that does not wait for the lock: the variant C23 has to
\* reject
AcquireUnlocked(t) ==
    /\ thr[t].pc = "acquire"
    /\ lock' = t
    /\ thr' = [thr EXCEPT ![t].pc = "execute"]
    /\ UNCHANGED <<fvars, dvars, mvars, svars, ext>>

\* `with self.lock:` is entered, and conn = self._connect()
Acquire(t) ==
    /\ thr[t].pc = "acquire"
    /\ lock = None
    /\ lock' = t
    /\ thr' = [thr EXCEPT ![t].pc = "execute"]
    /\ UNCHANGED <<fvars, dvars, mvars, svars, ext>>

\* record_stats, lines 145-156: one INSERT of the loop. It raises when int()
\* is given no number or when SQLite reports the file locked or unwritable.
Insert(t) ==
    /\ thr[t].pc = "execute"
    /\ thr[t].op = "record"
    /\ \E a \in thr[t].todo, fails \in BOOLEAN :
        thr' = [thr EXCEPT ![t] =
                  IF fails THEN [@ EXCEPT !.pc = "unwind"]
                  ELSE [@ EXCEPT !.todo = @ \ {a},
                                 !.txn = @ (+) RowsOf([x \in {a} |-> thr[t].stats[x]],
                                                      thr[t].now)]]
    /\ UNCHANGED <<fvars, dvars, mvars, svars, lock, ext>>

\* record_stats, line 158: conn.commit()
Commit(t) ==
    /\ thr[t].pc = "execute"
    /\ thr[t].op = "record"
    /\ thr[t].todo = {}
    /\ \E fails \in BOOLEAN :
        IF fails
        THEN /\ thr' = [thr EXCEPT ![t].pc = "unwind"]
             /\ dbs' = dbs
        ELSE /\ thr' = [thr EXCEPT ![t].pc = "release", ![t].txn = EmptyBag]
             /\ dbs' = [dbs EXCEPT ![store.path].rows = @ (+) thr[t].txn]
    /\ UNCHANGED <<fvars, dvars, mvars, persisted, store, result, lock, ext>>

\* get_stats_since, lines 174-193: the SELECT and the dictionary
Select(t) ==
    /\ thr[t].pc = "execute"
    /\ thr[t].op = "query"
    /\ \E fails \in BOOLEAN :
        thr' = [thr EXCEPT ![t] =
                  IF fails THEN [@ EXCEPT !.pc = "unwind"]
                  ELSE [@ EXCEPT !.pc = "release",
                                 !.value = GetStatsSince(Visible(Rows, OpenTxns(t)),
                                                         thr[t].start)]]
    /\ UNCHANGED <<fvars, dvars, mvars, svars, lock, ext>>

\* cleanup_old_data, lines 230-235: the DELETE and its commit
Delete(t) ==
    /\ thr[t].pc = "execute"
    /\ thr[t].op = "cleanup"
    /\ \E fails \in BOOLEAN :
        IF fails
        THEN /\ thr' = [thr EXCEPT ![t].pc = "unwind"]
             /\ dbs' = dbs
        ELSE /\ thr' = [thr EXCEPT ![t].pc = "release"]
             /\ dbs' = [dbs EXCEPT ![store.path].rows = DeleteBefore(@, thr[t].now)]
    /\ UNCHANGED <<fvars, dvars, mvars, persisted, store, result, lock, ext>>

\* conn.close(), the `with` block is left and the operation returns
Release(t) ==
    /\ thr[t].pc = "release"
    /\ lock' = None
    /\ thr' = [thr EXCEPT ![t] = NoThread]
    /\ UNCHANGED <<fvars, dvars, mvars, svars, ext>>

\* An exception leaves the `with` block: the lock is released, the
\* connection is dropped unclosed and its transaction is rolled back, the
\* exception goes to the caller.
Unwind(t) ==
    /\ thr[t].pc = "unwind"
    /\ lock' = None
    /\ thr' = [thr EXCEPT ![t] = NoThread]
    /\ UNCHANGED <<fvars, dvars, mvars, svars, ext>>

\* get_stats_since(start) in another process, on its own connection to the
\* same file: no lock of this process holds it back. Its start is the
\* epoch, so that every row it can see shows in what it returns.
ExternalQuery(start) ==
    /\ store.opened
    /\ ~ext.active
    /\ ext' = [active |-> TRUE, start |-> start,
               value |-> GetStatsSince(Visible(Rows, OpenTxns(None)), start)]
    /\ UNCHANGED <<fvars, dvars, mvars, svars, lock, thr>>

ExternalReturn ==
    /\ ext.active
    /\ ext' = NoExt
    /\ UNCHANGED <<fvars, dvars, mvars, svars, lock, thr>>

TNext ==
    \/ \E u \in Users : StoreOpen(u)
    \/ \E t \in Threads :
        \/ \E m \in BatchInputs : ThreadRecord(t, m)
        \/ \E start \in 0..MaxTime : ThreadQuery(t, start)
        \/ \E days \in 0..MaxDays : ThreadCleanup(t, days)
        \/ Acquire(t)
        \/ Insert(t)
        \/ Commit(t)
        \/ Select(t)
        \/ Delete(t)
        \/ Release(t)
        \/ Unwind(t)
    \/ ExternalQuery(0)
    \/ ExternalReturn
    \/ ClockMoves

\* ------------------------------------------------ the machine's files
\* Between two runs of the program, someone changes a data directory or its
\* database file: makes or removes the directory, puts something else at
\* its name, changes its permission bits, deletes the file or changes the
\* file's permission bits.
EnvChange(x) ==
    /\ ~store.opened
    /\ result.op = "none"
    /\ \E d \in DirStates, f \in FileStates :
        /\ d \in {"absent", "blocked"} => f = "absent"
        /\ f # "absent" => dbs[x].file # "absent"
        /\ <<d, f>> # <<dbs[x].dir, dbs[x].file>>
        /\ dbs' = [dbs EXCEPT ![x] =
                     [dir |-> d, file |-> f,
                      rows |-> IF f = "absent" THEN EmptyBag ELSE @.rows]]
    /\ UNCHANGED <<fvars, dvars, mvars, persisted, store, result, tvars>>

ONext ==
    \/ \E u \in Users : StoreOpen(u)
    \/ StoreClose
    \/ \E m \in BatchInputs : RecordStats(m)
    \/ \E u \in Users, arg \in SinceArgs : ShowSince(u, arg)
    \/ StoreReturn
    \/ \E x \in Paths : EnvChange(x)

SNext ==
    \/ \E u \in Users : StoreOpen(u)
    \/ StoreClose
    \/ \E m \in StatsInputs : RecordStats(m)
    \/ \E start \in 0..MaxTime : QuerySince(start)
    \/ \E days \in 0..MaxDays : CleanupOldData(days)
    \/ StoreReturn
    \/ ClockMoves

\* ------------------------------------------------------ firewall.py
\* The tracking file maps an application's name to its executable's path;
\* a name has one path here, so the file is the set of its names. The
\* calls need root, whose ~/.airtraffic/blocked_apps.json is the one file.
\* `failed`: the applications whose platform call did not take effect.
NoFw == [op |-> "none", by |-> "none", app |-> "none", failed |-> {},
         raised |-> FALSE]

FInit ==
    /\ blocked_apps = {}
    /\ rules = {}
    /\ processes = {}
    /\ fw = NoFw

\* `if self.system != 'Windows' and os.geteuid() != 0: raise PermissionError`
NeedsRoot(u) == system # "Windows" /\ u # "root"

\* The call raises before it has done anything.
FwRaises(op, u, a) ==
    /\ fw' = [NoFw EXCEPT !.op = op, !.by = u, !.app = a, !.raised = TRUE]
    /\ UNCHANGED <<blocked_apps, rules, processes>>

\* block_app(a) by user u, lines 154-205. _find_process_path raises for a
\* name no process has; _block_<platform> raises RuntimeError when the
\* firewall tool fails, before the tracking file is touched.
BlockApp(u, a) ==
    /\ IF NeedsRoot(u) \/ a \notin processes THEN FwRaises("block", u, a)
       ELSE \E fails \in BOOLEAN :
               IF fails
               THEN /\ fw' = [NoFw EXCEPT !.op = "block", !.by = u, !.app = a,
                                          !.failed = {a}, !.raised = TRUE]
                    /\ UNCHANGED <<blocked_apps, rules, processes>>
               ELSE /\ rules' = rules \cup {a}
                    /\ blocked_apps' = blocked_apps \cup {a}
                    /\ fw' = [NoFw EXCEPT !.op = "block", !.by = u, !.app = a]
                    /\ UNCHANGED processes
    /\ UNCHANGED <<dvars, mvars, svars, tvars>>

\* unblock_app(a) by user u, lines 207-275. _unblock_<platform> reads no
\* return code to raise on: when the tool fails the rule stays and the call
\* goes on to drop the name from the tracking file.
UnblockApp(u, a) ==
    /\ IF NeedsRoot(u) \/ a \notin blocked_apps THEN FwRaises("unblock", u, a)
       ELSE \E fails \in BOOLEAN :
               /\ rules' = IF fails THEN rules ELSE rules \ {a}
               /\ blocked_apps' = blocked_apps \ {a}
               /\ fw' = [NoFw EXCEPT !.op = "unblock", !.by = u, !.app = a,
                                     !.failed = IF fails THEN {a} ELSE {}]
               /\ UNCHANGED processes
    /\ UNCHANGED <<dvars, mvars, svars, tvars>>

\* block_all() by user u, lines 395-448: each listed application's platform
\* block inside try/except, then `blocked_apps.update(processes)` and the
\* save.
BlockAll(u) ==
    /\ IF NeedsRoot(u) THEN FwRaises("block_all", u, "none")
       ELSE \E failed \in SUBSET processes :
               /\ rules' = rules \cup (processes \ failed)
               /\ blocked_apps' = blocked_apps \cup processes
               /\ fw' = [NoFw EXCEPT !.op = "block_all", !.by = u, !.failed = failed]
               /\ UNCHANGED processes
    /\ UNCHANGED <<dvars, mvars, svars, tvars>>

\* allow_all() by user u, lines 450-495: nothing to do for an empty file;
\* else each listed application's platform unblock inside try/except, then
\* `self._save_blocked_apps({})`.
AllowAll(u) ==
    /\ IF NeedsRoot(u) THEN FwRaises("allow_all", u, "none")
       ELSE \E failed \in SUBSET blocked_apps :
               /\ rules' = rules \ (blocked_apps \ failed)
               /\ blocked_apps' = {}
               /\ fw' = [NoFw EXCEPT !.op = "allow_all", !.by = u, !.failed = failed]
               /\ UNCHANGED processes
    /\ UNCHANGED <<dvars, mvars, svars, tvars>>

\* Applications start and exit.
ProcessesChange ==
    /\ \E S \in SUBSET AppNames : processes' = S
    /\ processes' # processes
    /\ UNCHANGED <<blocked_apps, rules, fw, dvars, mvars, svars, tvars>>

FNext ==
    \/ \E u \in Users :
        \/ \E a \in AppNames : BlockApp(u, a)
        \/ \E a \in AppNames : UnblockApp(u, a)
        \/ BlockAll(u)
        \/ AllowAll(u)
    \/ ProcessesChange

MNext ==
    \/ CallPrime \/ CallSample \/ TickRecord \/ Resume
    \/ CountersMove \/ ClockMoves \/ TableChanges

DNext ==
    \E p \in Procs :
        \/ Spawn(p)
        \/ StartCheck(p)
        \/ WritePid(p)
        \/ SetRunning(p)
        \/ Prime(p)
        \/ LoopCheck(p)
        \/ Tick(p)
        \/ Sleep(p)
        \/ Except(p)
        \/ Cleanup(p)
        \/ StopBegin(p)
        \/ StopKill(p)
        \/ StopPoll(p)
        \/ StopRemove(p)
        \/ StopExcept(p)
        \/ Status(p)
        \/ Interrupt(p)
        \/ Crash(p)

Init == DInit /\ MInit /\ SInit /\ TInit /\ FInit

Next == DNext

\* The lifecycle of the collector processes
Spec == Init /\ [][Next]_vars

NextMonitor == MNext

\* One monitor and its owner's calls
SpecMonitor == Init /\ [][NextMonitor]_vars

NextStore == SNext

\* One store object at a time on the machine's database files
SpecStore == Init /\ [][NextStore]_vars

NextOpen == ONext

\* The store objects opened, one at a time, on a machine whose data
\* directories and files change between the runs
SpecOpen == Init /\ [][NextOpen]_vars

NextThreads == TNext

\* The threads of one process on its store object, and a reader in another
\* process
SpecThreads == Init /\ [][NextThreads]_vars

NextFirewall == FNext

\* The FirewallManager's calls on the tracking file and the host firewall
SpecFirewall == Init /\ [][NextFirewall]_vars

\* ====================================================== the claims
\* The collectors inside `while self.running:`
RunningCollectors == {p \in Procs : proc[p].cmd = "start" /\ proc[p].pc \in LoopStates}

\* p takes the step of `pcs` that ends its get_pid() call
GetPidStep(p, pcs) ==
    /\ proc[p].pc \in pcs
    /\ proc'[p].pc # proc[p].pc
    /\ proc'[p].pc # "killed"

\* p takes the step of stop() that removes the markers and returns
StopCleanupStep(p) ==
    /\ proc[p].pc \in {"stop_remove", "stop_except"}
    /\ proc'[p].pc \in {"ret_stopped", "ret_error"}

CandidateSet(p) == {PidFileCandidates(p)[i] : i \in DOMAIN PidFileCandidates(p)}

\* The marker at `path` names a PID no live process holds.
Stale(path) == files[path] # None /\ ProcWithPid(files[path]) = {}

\* C1: at most one collector is inside its running tick loop at any time,
\* whatever the interleaving of start() calls.
C1_AtMostOneRunning == Cardinality(RunningCollectors) <= 1

\* C2: start() is idempotent. When get_pid() returns the PID of a live
\* collector, start() returns "already running": it writes no marker, does
\* not set running, does not sample or enter the loop, leaves the marker
\* naming that PID as it is and touches no other process.
C2_StartIdempotent ==
    [][\A p \in Procs :
        (GetPidStep(p, {"start"}) /\ GetPid(p).pid # None) =>
            /\ proc'[p].pc = "ret_already"
            /\ \A x \in Paths : files[x] = GetPid(p).pid => files'[x] = files[x]
            /\ \A x \in Paths : files'[x] \in {files[x], None}
            /\ \A q \in Procs \ {p} : proc'[q] = proc[q]
            /\ RunningCollectors' = RunningCollectors]_vars

\* C2's case: a second start() has returned "already running" while the
\* first collector is in its loop and its marker still names it.
C2_Witness ==
    \E p, q \in Procs :
        /\ proc[p].pc = "ret_already"
        /\ q \in RunningCollectors
        /\ files[GetPidFile(q)] = proc[q].pid

\* The not-running return of stop(): no signal, no file changed, no other
\* process touched.
StopNoOp(p) ==
    /\ proc'[p].pc = "ret_not_running"
    /\ files' = files
    /\ \A q \in Procs \ {p} : proc'[q] = proc[q]

C5_RootCollectorVisible ==
    \A p \in Procs, q \in RunningCollectors :
        ( /\ system = "Unix"
          /\ proc[p].pc \in {"status", "stop"}
          /\ proc[p].euid # "root"
          /\ proc[q].euid = "root"
          /\ files["sys"] = proc[q].pid ) => GetPid(p).pid = proc[q].pid

\* C6: once the collector has handled SIGTERM/SIGINT, the loop exits at its
\* next check point (and the marker is removed on the way out).
C6_SignalEndsLoop ==
    \A p \in Procs :
        proc[p].handled /\ proc[p].pc = "loop" => ~proc[p].running

\* stop()'s remaining steps, at most: it decreases with every step.
StopMeasure(pr) ==
    CASE pr.pc = "stop" -> PollAttempts + 4
      [] pr.pc = "stop_kill" -> PollAttempts + 3
      [] pr.pc = "stop_poll" -> PollAttempts + 2 - pr.attempts
      [] pr.pc \in {"stop_remove", "stop_except"} -> 1
      [] OTHER -> 0

C8_TickFailureIsolated ==
    [][\A p \in Procs :
        (proc[p].pc = "except" /\ proc'[p].pc \notin {"except", "killed"}) =>
            proc'[p].pc \in LoopStates]_vars

\* ------------------------------------------------ the monitor's claims
\* The connection table the latest call tallied
SeenTable ==
    IF call.denied THEN [i \in OsProcs |-> [os_table[i] EXCEPT !.conns = 0]]
    ELSE os_table

\* total_connections of the latest call
TotalConnections ==
    SumOver([a \in Resolved |-> ConnectionsOf(SeenTable, a)], Resolved)

\* The latest call had a previous snapshot, a positive interval and a
\* positive elapsed time, and read the counters: it attributed a delta.
PairSampled ==
    /\ mpc \in {"returned", "recorded"}
    /\ ~call.io_fails
    /\ call.prev.set
    /\ call.interval > 0
    /\ clock - call.prev.time > 0

SentDelta == net_io.bytes_sent - call.prev.bytes_sent

RecvDelta == net_io.bytes_recv - call.prev.bytes_recv

Clamped(d) == IF d > 0 THEN d ELSE 0

RECURSIVE FracSum(_, _)
FracSum(f, S) ==
    IF S = {} THEN Zero
    ELSE LET x == CHOOSE y \in S : TRUE IN FracAdd(f[x], FracSum(f, S \ {x}))

SumSent == FracSum([a \in DOMAIN stats |-> stats[a].sent], DOMAIN stats)

SumRecv == FracSum([a \in DOMAIN stats |-> stats[a].recv], DOMAIN stats)

\* C9: for a snapshot pair with positive elapsed time and
\* total_connections > 0, the attributed sent bytes of all applications sum
\* to the clamped system-wide delta max(cur - prev, 0), and so do the recv
\* bytes, whatever the elapsed time.
C9_SplitSumsToDelta ==
    (PairSampled /\ TotalConnections > 0) =>
        /\ FracEq(SumSent, Frac(Clamped(SentDelta), 1))
        /\ FracEq(SumRecv, Frac(Clamped(RecvDelta), 1))

\* C10: for a snapshot pair with positive elapsed time and no connection
\* seen (total_connections = 0), the whole sent and recv delta cur - prev,
\* as the call computes it, is in the "System" bucket and no other bucket
\* holds bytes.
C10_ZeroConnFallback ==
    (PairSampled /\ TotalConnections = 0) =>
        /\ "System" \in DOMAIN stats
        /\ FracEq(stats["System"].sent, Frac(SentDelta, 1))
        /\ FracEq(stats["System"].recv, Frac(RecvDelta, 1))
        /\ \A a \in DOMAIN stats \ {"System"} :
              FracEq(stats[a].sent, Zero) /\ FracEq(stats[a].recv, Zero)

\* C10's case: a loop call over more than one clock tick saw no connection
\* while the counters had advanced, and returned the "System" bucket.
C10_Witness ==
    /\ PairSampled
    /\ TotalConnections = 0
    /\ clock - call.prev.time > 1
    /\ SentDelta > 0
    /\ RecvDelta > 0
    /\ DOMAIN stats = {"System"}

\* C11: after a counter reset (cur.bytes_sent < prev.bytes_sent, or the
\* same for recv) the attributed sent (resp. recv) of every application,
\* the "System" bucket included, is exactly zero, never negative.
C11_NegativeDeltaClamped ==
    PairSampled =>
        /\ SentDelta < 0 => \A a \in DOMAIN stats : FracEq(stats[a].sent, Zero)
        /\ RecvDelta < 0 => \A a \in DOMAIN stats : FracEq(stats[a].recv, Zero)

\* C12: every row the collector persists has bytes_sent >= 0 and
\* bytes_recv >= 0, also on a tick that follows a counter reset.
C12_RowsNonNegative ==
    \A r \in BagToSet(persisted) : r.bytes_sent >= 0 /\ r.bytes_recv >= 0

\* The collector's latest tick attributed a delta and persisted its rows.
TickPersisted == mpc = "recorded" /\ PairSampled

PersistedSent ==
    SumOver([r \in BagToSet(persisted) |-> r.bytes_sent], BagToSet(persisted))

PersistedRecv ==
    SumOver([r \in BagToSet(persisted) |-> r.bytes_recv], BagToSet(persisted))

\* C13: for every collector tick the bytes_sent of the rows persisted for
\* it sum to no more than the system-wide sent delta between the tick's
\* snapshot and the previous one, and likewise bytes_recv, whatever the
\* elapsed time.
C13_TickConservation ==
    TickPersisted => PersistedSent <= SentDelta /\ PersistedRecv <= RecvDelta

\* The share of the raw delta d that falls to an application with c of the
\* connections seen, as an integer row value.
ShareOf(d, c) ==
    IF TotalConnections > 0 THEN IntOf(Frac(d * c, TotalConnections)) ELSE d

\* C14: the bytes the collector writes for a tick are shares of the raw
\* byte delta between the two snapshots, not of the delta divided by the
\* elapsed seconds.
C14_PersistsDeltaNotRate ==
    TickPersisted =>
        \A r \in BagToSet(persisted) :
            /\ r.bytes_sent = ShareOf(SentDelta, r.connections)
            /\ r.bytes_recv = ShareOf(RecvDelta, r.connections)

\* The latest call had no previous snapshot, or no time had passed since it.
NoBaseline ==
    /\ mpc \in {"returned", "recorded"}
    /\ ~call.prev.set \/ clock - call.prev.time <= 0

\* C15: with no previous snapshot, or an elapsed time <= 0, the call
\* returns the connection counts only: an entry for each application with
\* connections, sent = 0 and recv = 0 in every entry, no "System" bytes.
C15_NoBaselineNoBytes ==
    NoBaseline =>
        /\ DOMAIN stats = AppsWithConnections(SeenTable)
        /\ \A a \in DOMAIN stats :
              /\ stats[a].connections = ConnectionsOf(SeenTable, a)
              /\ FracEq(stats[a].sent, Zero)
              /\ FracEq(stats[a].recv, Zero)

\* C15's two cases, each with counters that have moved and a connection
\* seen: a loop call before any snapshot was stored, and a loop call after
\* the wall clock was set back.
C15_Witness ==
    /\ NoBaseline
    /\ ~call.io_fails
    /\ call.interval > 0
    /\ DOMAIN stats # {}
    /\ \/ ~call.prev.set /\ net_io.bytes_sent > 0 /\ clock > 0
       \/ call.prev.set /\ SentDelta > 0 /\ clock - call.prev.time < 0

\* -------------------------------------------------- the store's claims
\* The instant a stored timestamp text stands for, in ticks
TimeOf(text) ==
    text[1] * TicksPerSecond + (IF Len(text) > 1 THEN text[2] ELSE 0)

IsInt(x) == x.num % x.den = 0

\* The step is a call of the store operation `op`.
StoreStep(op) == result.op = "none" /\ result'.op = op

\* The rows of application a in the table `rows`, as a bag
RowsOfApp(rows, a) ==
    [r \in {x \in BagToSet(rows) : x.app_name = a} |-> CopiesIn(r, rows)]

\* C16: store round trip. After record_stats of a map with integer sent s
\* and recv r for an application, at time T, on a writable store holding
\* no other row of that application, get_stats_since(start) for any
\* start <= T returns the application with sent = s, recv = r and its
\* connections c.
C16_RoundTrip ==
    [][(StoreStep("record") /\ ~store.read_only /\ ~result'.raised) =>
        \A a \in DOMAIN result'.stats :
            LET x == result'.stats[a] IN
            (IsInt(x.sent) /\ IsInt(x.recv) /\ RowsOfApp(Rows, a) = EmptyBag) =>
                \A start \in 0..clock :
                    LET got == GetStatsSince(dbs'[store.path].rows, start) IN
                    /\ a \in DOMAIN got
                    /\ got[a] = [sent |-> x.sent.num \div x.sent.den,
                                 recv |-> x.recv.num \div x.recv.den,
                                 connections |-> x.connections]]_vars

\* C16's case: a query has returned the one row recorded with sent 1,
\* recv 2, connections 1.
C16_Witness ==
    /\ result.op = "query"
    /\ ~store.read_only
    /\ BagCardinality(Rows) = 1
    /\ \E a \in DOMAIN result.value :
          result.value[a] = [sent |-> 1, recv |-> 2, connections |-> 1]

\* The rows of `rows` stamped at or after the instant `start`, as a set
Since(rows, start) == {r \in BagToSet(rows) : TimeOf(r.timestamp) >= start}

\* C17: get_stats_since(start) returns exactly the applications with at
\* least one row of timestamp >= start and, for each, the sum of bytes_sent,
\* the sum of bytes_recv and the maximum of connections over precisely
\* those rows; older rows contribute nothing.
C17_QueryAggregates ==
    result.op = "query" =>
        LET sel == Since(Rows, result.start) IN
        /\ DOMAIN result.value = {r.app_name : r \in sel}
        /\ \A a \in DOMAIN result.value :
              LET mine == {r \in sel : r.app_name = a} IN
              /\ result.value[a].sent =
                    SumOver([r \in mine |-> r.bytes_sent * Rows[r]], mine)
              /\ result.value[a].recv =
                    SumOver([r \in mine |-> r.bytes_recv * Rows[r]], mine)
              /\ \E r \in mine : r.connections = result.value[a].connections
              /\ \A r \in mine : r.connections <= result.value[a].connections

\* C17's case: an application holds two rows of bytes_sent 1, one older
\* than start, and a query has returned it with sent 1.
C17_Witness ==
    /\ result.op = "query"
    /\ \E a \in DOMAIN result.value :
          /\ BagCardinality(RowsOfApp(Rows, a)) = 2
          /\ \A r \in DOMAIN RowsOfApp(Rows, a) : r.bytes_sent = 1
          /\ \E r \in DOMAIN RowsOfApp(Rows, a) :
                TimeOf(r.timestamp) < result.start
          /\ result.value[a].sent = 1

\* C18: on a fixed store, for start1 <= start2, every application returned
\* by get_stats_since(start2) is returned by get_stats_since(start1) with
\* sent, recv and connections each >= its value for start2.
C18_QueryMonotonic ==
    result.op = "query" =>
        \A start1 \in 0..result.start :
            LET wide == GetStatsSince(Rows, start1) IN
            \A a \in DOMAIN result.value :
                /\ a \in DOMAIN wide
                /\ wide[a].sent >= result.value[a].sent
                /\ wide[a].recv >= result.value[a].recv
                /\ wide[a].connections >= result.value[a].connections

\* The cutoff of the cleanup that has just been called
Cutoff == clock - result'.days * SecondsPerDay * TicksPerSecond

\* The cleanup step keeps exactly the rows stamped at or after the cutoff,
\* each as often as it was there.
KeepsFromCutoff ==
    /\ BagToSet(dbs'[store.path].rows) = Since(Rows, Cutoff)
    /\ \A r \in Since(Rows, Cutoff) : dbs'[store.path].rows[r] = Rows[r]
    /\ \A x \in Paths \ {store.path} : dbs'[x] = dbs[x]
    /\ \A start \in 0..MaxTime :
          GetStatsSince(dbs'[store.path].rows, start) =
              GetStatsSince([r \in Since(Rows, Cutoff) |-> Rows[r]], start)

C20_ReadOnlyRejectsWrites ==
    (result.op = "record" /\ store.read_only /\ DOMAIN result.stats # {}) =>
        result.raised


\* An entry of the dictionary with nonzero sent, recv or connections
Active(x) == x.sent.num # 0 \/ x.recv.num # 0 \/ x.connections # 0

\* C21: each record_stats call on a writable store appends exactly one row
\* for each application of the map with nonzero activity and no row for an
\* application whose values are all zero; an empty map appends nothing.
C21_OneRowPerActiveApp ==
    [][(StoreStep("record") /\ ~store.read_only /\ ~result'.raised) =>
        LET m == result'.stats
            active == {a \in DOMAIN m : Active(m[a])}
        IN  dbs'[store.path].rows =
                Rows (+) RowsOf([a \in active |-> m[a]], clock)]_vars


\* ------------------------------------------- the store's threads' claims
\* The threads whose record_stats has begun its transaction and has not
\* committed it
Recording == {w \in Threads : thr[w].op = "record" /\ thr[w].pc \in {"execute", "unwind"}}

\* All the rows of thread w's tick
Batch(w) == RowsOf(thr[w].stats, thr[w].now)

\* What get_stats_since(start) returns when, of each tick being recorded,
\* it sees all the rows or none
AllOrNone(start) ==
    {GetStatsSince(Rows (+) BagSum([w \in S |-> Batch(w)], S), start) :
        S \in SUBSET Recording}

\* C22: a get_stats_since that runs while record_stats is recording a tick,
\* in the same process or in another, observes all the rows of the tick or
\* none of them, never a strict subset; and what is committed grows by whole
\* ticks only.
C22_NoPartialTick ==
    [][/\ (ext'.active /\ ~ext.active) => ext'.value \in AllOrNone(ext'.start)
       /\ \A t \in Threads :
            (thr[t].op = "query" /\ thr[t].pc = "execute" /\ thr'[t].pc = "release")
                => thr'[t].value \in AllOrNone(thr[t].start)
       /\ \A r \in BagToSet(dbs'[store.path].rows) :
            CopiesIn(r, dbs'[store.path].rows) > CopiesIn(r, Rows) =>
                \E w \in Recording : dbs'[store.path].rows = Rows (+) Batch(w)]_vars

\* C22's case: a reader of another process holds what it read while one row
\* of a tick of two is inserted and not committed, and it has none of it.
C22_Witness ==
    /\ ext.active
    /\ \E w \in Recording :
          /\ BagCardinality(thr[w].txn) = 1
          /\ thr[w].todo # {}
          /\ Rows = EmptyBag
          /\ DOMAIN ext.value = {}

\* The steps of an operation made inside its `with self.lock:` block
InLock == {"execute", "release", "unwind"}

\* Thread t's operation is a cleanup about to delete the rows before its
\* cutoff.
Deleting(t) == thr[t].op = "cleanup" /\ thr[t].pc = "execute"

\* C23: the operations of one store object never overlap within a process:
\* a thread is inside an operation's transaction only while it holds the
\* lock, and holds the lock at no other time, so the lock is free once the
\* operation has ended, also by an exception; a row leaves the table only
\* by a cleanup and only when it is older than that cleanup's cutoff, and a
\* commit of record_stats adds all the rows of its tick.
C23_StoreMutex ==
    /\ [](\A t \in Threads : thr[t].pc \in InLock <=> lock = t)
    /\ [][/\ \A r \in BagToSet(Rows) :
                CopiesIn(r, dbs'[store.path].rows) < CopiesIn(r, Rows) =>
                    \E t \in Threads : Deleting(t) /\ TimeOf(r.timestamp) < thr[t].now
          /\ \A t \in Threads :
                (thr[t].op = "record" /\ thr[t].pc = "execute" /\ thr'[t].pc = "release")
                    => dbs'[store.path].rows = Rows (+) Batch(t)]_vars

\* C23's case: a cleanup holds the lock, with a row older than its cutoff
\* in the table, while a record_stats waits for the lock.
C23_Witness ==
    \E t \in Threads, u \in Threads :
        /\ Deleting(t)
        /\ lock = t
        /\ thr[u].op = "record"
        /\ thr[u].pc = "acquire"
        /\ \E r \in BagToSet(Rows) : TimeOf(r.timestamp) < thr[t].now


\* ------------------------------------------------ the open's claims
\* The step is NetworkDatabase() by user u, ended either way.
Opens(u) ==
    /\ ~store.opened
    /\ result.op = "none"
    /\ \/ store'.opened /\ store'.euid = u
       \/ result'.op = "open" /\ result'.by = u

\* Where a privileged collector's rows are: the file root's store resolves to
PrivilegedFile == IF system = "Windows" THEN "root" ELSE "sys"

\* An unprivileged user's open finds the privileged collector's rows: it
\* resolves to that file, read-only, with no error.
OpensShared(u) ==
    /\ store'.opened
    /\ result'.op = "none"
    /\ store'.path = PrivilegedFile
    /\ store'.read_only
    /\ dbs'[store'.path].rows = dbs[PrivilegedFile].rows

\* A query of an unprivileged user returns what the privileged collector
\* recorded.
ReadsShared ==
    (result.op = "query" /\ store.euid # "root"
        /\ dbs[PrivilegedFile].rows # EmptyBag) =>
            result.value = GetStatsSince(dbs[PrivilegedFile].rows, result.start)

\* C24 as stated: after a privileged collector has recorded rows, a store
\* opened by an unprivileged user on the same machine resolves to the same
\* system-wide file, opens it read-only without error, and get_stats_since
\* returns those rows.
C24_SharedAcrossPrivilege ==
    /\ []ReadsShared
    /\ [][\A u \in Users \ {"root"} :
            (Opens(u) /\ dbs[PrivilegedFile].rows # EmptyBag) => OpensShared(u)]_vars

\* C24 as amended: on macOS and Linux, after a privileged collector has
\* recorded rows, a store opened by an unprivileged user resolves to the
\* same system-wide file, opens it read-only without error, and
\* get_stats_since returns those rows.
C24_SharedAcrossPrivilegeUnix ==
    /\ [](system # "Windows" => ReadsShared)
    /\ [][\A u \in Users \ {"root"} :
            (system # "Windows" /\ Opens(u) /\ dbs["sys"].rows # EmptyBag)
                => OpensShared(u)]_vars

\* C24's case: an unprivileged user's query on the system-wide file has
\* returned rows.
C24_Witness ==
    /\ result.op = "query"
    /\ store.euid # "root"
    /\ store.read_only
    /\ store.path = "sys"
    /\ DOMAIN result.value # {}

\* C25: the store's path is a function of the OS, the effective user and
\* the system-wide directory: Windows, the per-user application-data
\* directory; Unix root, the system-wide directory, writable; Unix non-root
\* with the system-wide directory present and readable, that directory,
\* read-only; otherwise the per-user home directory, writable. The store is
\* read-only in the third case only.
C25_PathResolution ==
    [][\A u \in Users :
        (Opens(u) /\ (store'.opened \/ result'.names # "none")) =>
            LET third == system # "Windows" /\ u # "root" /\ dbs["sys"].dir = "normal"
                path == IF system = "Windows" THEN u
                        ELSE IF u = "root" \/ third THEN "sys"
                        ELSE u
            IN  /\ store'.opened => (store'.path = path /\ store'.read_only = third)
                /\ ~store'.opened => result'.names = path]_vars

\* C25's case: the third one, and an unprivileged user whose store fell back
\* to the home directory while a system-wide directory is there, unreadable.
C25_Witness ==
    /\ system # "Windows"
    /\ store.opened
    /\ store.euid # "root"
    /\ \/ store.read_only /\ store.path = "sys"
       \/ ~store.read_only /\ store.path = store.euid /\ dbs["sys"].dir = "private"

\* The open by u cannot have its directory: it is not there and cannot be
\* made.
NoDirectory(u) == ~ReadOnly(u, DbDir(u)) /\ dbs[DbDir(u)].dir = "blocked"

\* The directory is there and a writable store cannot write it.
NotWritable(u) ==
    /\ ~ReadOnly(u, DbDir(u))
    /\ IsDir(DbDir(u))
    /\ ~Writable(u, DbDir(u), Makedirs(u, DbDir(u), dbs[DbDir(u)].dir))

\* The file of a read-only store is missing or cannot be opened.
NoFile(u) == ReadOnly(u, DbDir(u)) /\ dbs[DbDir(u)].file # "ok"

\* The open raises an error that names the resolved path, leaves no store
\* object and has made no second attempt.
FailsNamingPath(u) ==
    /\ ~store'.opened
    /\ result'.op = "open"
    /\ result'.raised
    /\ result'.names = DbDir(u)
    /\ dbs'[DbDir(u)].file = dbs[DbDir(u)].file

SignalAsleep(p) ==
    /\ proc[p].cmd = "start"
    /\ proc[p].pc = "sleep"
    /\ ~proc[p].handled
    /\ proc'[p].cmd = "start"
    /\ proc'[p].handled

\* C27: the sleep between two ticks is interruptible by the shutdown
\* signal: when SIGTERM/SIGINT arrives while the collector sleeps, the sleep
\* ends there and the loop exits without waiting out the rest of the
\* interval, and without another sample or record.
C27_ResponsiveShutdown ==
    [][\A p \in Procs :
        /\ SignalAsleep(p) => proc'[p].pc \in {"loop", "cleanup"}
        /\ (proc[p].handled /\ ~proc[p].running /\ proc[p].pc \in {"sleep", "loop"})
                => proc'[p].pc # "tick"]_vars


\* ------------------------------------------------ the sampler, again
\* The latest call has returned and had read the counters.
Sampled == mpc \in {"returned", "recorded"} /\ ~call.io_fails

\* The snapshot of the counters and the clock as the latest call read them
Snapshot ==
    [set |-> TRUE, bytes_sent |-> net_io.bytes_sent,
     bytes_recv |-> net_io.bytes_recv, time |-> clock]

\* The listed processes psutil gives nothing of
Vanished == {i \in OsProcs : os_table[i].state # "ok"}

C29_ResolverTotal ==
    (Sampled /\ ~call.denied) =>
        /\ DOMAIN last_stats = DOMAIN NoStats
        /\ \A i \in Vanished :
              /\ GetAppName(os_table[i]) = "Unknown"
              /\ os_table[i].conns > 0 =>
                    /\ "Unknown" \in DOMAIN stats
                    /\ stats["Unknown"].connections >= os_table[i].conns

\* C29's case: a call has returned with an exited, a zombie or an
\* inaccessible process listed, its connections under "Unknown".
C29_Witness ==
    /\ Sampled
    /\ ~call.denied
    /\ \E i \in Vanished : os_table[i].conns > 0
    /\ {os_table[i].state : i \in Vanished} \in {{"gone", "zombie"}, {"denied"}}
    /\ "Unknown" \in DOMAIN stats


\* C30: when no collector is live, start() writes the PID marker before it
\* takes any sample, then takes the initial sample, which sets last_stats,
\* so that every tick of the loop, the first included, has a baseline.
C30_PrimedBeforeFirstTick ==
    /\ [](\A p \in Procs : proc[p].pc = "tick" => proc[p].baseline)
    /\ [][\A p \in Procs :
            /\ (proc'[p].pc = "set_running" /\ proc[p].pc # "set_running")
                   => (proc[p].pc = "write_pid"
                          /\ files'[GetPidFile(p)] = proc[p].pid)
            /\ (proc'[p].pc = "prime" /\ proc[p].pc # "prime")
                   => proc[p].pc = "set_running"
            /\ (proc'[p].pc = "tick" /\ proc[p].pc # "tick")
                   => proc[p].pc = "loop"]_vars


\* ------------------------------------------------- the loop's order
\* Process p takes a tick's sample in this step.
Samples(p) == proc[p].pc = "tick" /\ proc'[p].pc \in {"sleep", "except"}

\* C31: every iteration of the running loop sleeps the interval first and
\* then samples, attributes and records, so that every tick, the first one
\* after the priming snapshot included, is taken a full interval after the
\* snapshot before it.
C31_SleepBeforeSample ==
    [][\A p \in Procs : Samples(p) => proc[p].slept = DaemonInterval]_vars


WellFormed(arg) ==
    \/ arg.word \in {"today", " Today ", "MONTH"}
    \/ /\ arg.word = "stamp"
       /\ arg.sep = ":"
       /\ arg.day = 1
       /\ arg.month = 1

\* C33: for a malformed time specification show_since reports the usage
\* error and exits with a failure status before any NetworkDatabase is
\* constructed or queried: no data directory or database file is made,
\* opened or changed, and no store object results.
C33_UsageErrorBeforeStore ==
    [][(StoreStep("since") /\ ~WellFormed(result'.arg)) =>
          /\ result'.raised
          /\ result'.why = "usage"
          /\ result'.value = EmptyStats
          /\ dbs' = dbs
          /\ store' = store]_vars

\* C33's case: a user whose data directory does not exist has run `since`
\* with a malformed specification, and the directory a well-formed one
\* would have made is still not there.
C33_Witness ==
    /\ result.op = "since"
    /\ ~WellFormed(result.arg)
    /\ result.why = "usage"
    /\ result.by = "alice"
    /\ DbDir("alice") = "alice"
    /\ dbs["alice"].dir = "absent"


\* ------------------------------------------------- whose marker it is
\* Process p runs the `finally` of start() in this step.
CleansUp(p) == proc[p].pc = "cleanup" /\ proc'[p].pc = "ret_daemon_stopped"

\* C34: when a collector's running loop exits, its cleanup removes only a
\* marker that holds its own PID; it never removes the marker a different
\* collector, still live, has written.
C34_RemovesOwnMarkerOnly ==
    [][\A p \in Procs :
          CleansUp(p) =>
              \A x \in Paths : files'[x] # files[x] => files[x] = proc[p].pid]_vars


\* ------------------------------------------------- what stop() reports
\* Process p's stop() leaves its wait loop in this step, for the removal of
\* the markers and the normal return, "Daemon stopped.".
StopReturns(p) == proc[p].pc = "stop_poll" /\ proc'[p].pc = "stop_remove"

\* The collector p's stop() has sent its request to, while it is live
Targeted(p) ==
    {q \in ProcWithPid(proc[p].target) : proc[q].cmd = "start" /\ proc[q].stopper = p}

\* C35: stop() reports completion only after the exit. Whenever stop() has
\* found a live collector and goes on to return normally, the collector it
\* targeted is no longer live.
C35_StoppedMeansExited ==
    [][\A p \in Procs : StopReturns(p) => Targeted(p) = {}]_vars


\* ------------------------------------------------- root meets a user's collector
\* C36: when an unprivileged user's collector is live in its loop with its
\* marker at that user's per-user path, start() invoked by root on the same
\* machine finds it through get_pid() and returns "already running"
\* instead of starting a second collector.
C36_RootFindsUserCollector ==
    [][\A p \in Procs, q \in RunningCollectors :
          ( /\ GetPidStep(p, {"start"})
            /\ proc[p].euid = "root"
            /\ proc[q].euid # "root"
            /\ files[proc[q].home] = proc[q].pid )
          => proc'[p].pc = "ret_already"]_vars


\* C35 as amended: stop() goes on to its normal return either after a probe
\* has found the collector it targeted gone, or after PollAttempts probes
\* have all found it live; in the second case it reports "Daemon stopped."
\* while that collector may still be in its tick loop.
C35_StoppedAfterExitOrTimeout ==
    [][\A p \in Procs :
          StopReturns(p) =>
              \/ Targeted(p) = {}
              \/ proc[p].attempts = PollAttempts]_vars

\* C35's case: stop() has left its wait loop before the polls ran out,
\* because the collector it signalled has run its cleanup and returned.
C35_Witness ==
    \E p \in Procs, q \in Procs :
        /\ system = "Unix"
        /\ proc[p].pc = "stop_remove"
        /\ proc[p].attempts < PollAttempts
        /\ proc[p].sent = 1
        /\ ProcWithPid(proc[p].target) = {}
        /\ proc[q].pc = "ret_daemon_stopped"


\* ------------------------------------------------- whom stop() signals
\* Process p's stop() sends its termination request in this step, and the
\* request reaches process q.
Signals(p, q) ==
    /\ proc[p].pc = "stop_kill"
    /\ proc'[p].pc = "stop_poll"
    /\ q \in ProcWithPid(proc[p].target)
    /\ CanSignal(p, q)

\* C37: the termination request stop() sends always goes to an AirTraffic
\* collector: when a collector died without cleanup and its PID has since
\* been taken by an unrelated live process, stop() sends that process no
\* signal.
C37_StopSignalsCollectorsOnly ==
    [][\A p \in Procs, q \in Procs : Signals(p, q) => proc[q].cmd = "start"]_vars


\* ------------------------------------------------- the collector's store
\* The collector's store is the NetworkDatabase() its __init__ constructs
\* (daemon.py line 24), StoreOpen(u) for the user u that runs it; a tick
\* whose dictionary is not empty calls record_stats on it (lines 158-159).
\* C38: every collector that reaches the running loop holds a writable
\* store, so each tick whose attribution map is not empty appends its rows,
\* also for an unprivileged collector on a machine where the system-wide
\* data directory exists.
C38_CollectorPersists ==
    [][(StoreStep("record") /\ DOMAIN result'.stats # {} /\ ~result'.raised) =>
          /\ ~store.read_only
          /\ dbs'[store.path].rows = Rows (+) RowsOf(result'.stats, clock)]_vars


\* ------------------------------------------------- from tick to tick
\* The collector's latest loop call read the counters in "System" mode (no
\* connection seen), with a baseline and with counters that had not gone
\* back since the baseline.
SystemTick ==
    /\ mpc \in {"returned", "recorded"}
    /\ call.interval = DaemonInterval
    /\ ~call.io_fails
    /\ call.prev.set
    /\ TotalConnections = 0
    /\ SentDelta >= 0
    /\ RecvDelta >= 0

\* C39: no traffic is lost between ticks. The previous-snapshot slot is
\* replaced by the current snapshot at the end of every successful sample
\* and only then, and every tick in zero-connection ("System") mode with
\* non-decreasing counters hands the whole of the bytes counted since the
\* previous snapshot to the store, so that the rows of consecutive ticks
\* sum to the last snapshot's counter minus the priming snapshot's.
C39_NoTrafficLost ==
    /\ (mpc = "returned" /\ call.io_fails) => last_stats = call.prev
    /\ Sampled => last_stats = Snapshot
    /\ SystemTick =>
          /\ FracEq(SumSent, Frac(SentDelta, 1))
          /\ FracEq(SumRecv, Frac(RecvDelta, 1))
          /\ mpc = "recorded" =>
                PersistedSent = SentDelta /\ PersistedRecv = RecvDelta


\* ------------------------------------------------- the blocked-apps list
\* The step is a block_all() or an allow_all() that returns.
BulkStep(op) == fw'.op = op /\ ~fw'.raised /\ fw' # fw

\* C40: after block_all() or allow_all() an application is in the persisted
\* blocked-apps list if and only if its firewall block is in force: an
\* application whose platform block call failed is not added by block_all,
\* and one whose unblock call failed is not dropped by allow_all.
C40_BlockedListConsistent ==
    /\ []((fw.op \in {"block_all", "allow_all"} /\ ~fw.raised) =>
            blocked_apps = rules)
    /\ [][/\ BulkStep("block_all") =>
               \A a \in fw'.failed \ blocked_apps : a \notin blocked_apps'
          /\ BulkStep("allow_all") =>
               \A a \in fw'.failed : a \in blocked_apps']_vars

=============================================================================
